---- MODULE Spec2Model ----
(***************************************************************************)
(* licensecheck/packageinfo.py: package information from the installed     *)
(* metadata store and from pypi.org, the license of a classifier list, and *)
(* the license of the current project.                                     *)
(*                                                                         *)
(* A behaviour is one call of one function of the module by its caller:    *)
(* Init fixes the arguments and the environment (metadata store, package   *)
(* files, registry, manifest files), the actions are the steps of the      *)
(* called function.  Python strings are TLA+ strings; Python dicts are     *)
(* functions whose DOMAIN is the set of keys.                              *)
(***************************************************************************)
EXTENDS Naturals, Sequences, FiniteSets, TLC

VARIABLES
    fn,            \* the function of the module the caller invoked
    pc,            \* position in it: a loop, "done" (returned), "raised"
    exc,           \* the exception that left the function, "" if none
    ret,           \* the value returned
    classifiers,   \* licenseFromClassifierlist: its argument
    requirements,  \* the list the caller passed, as it was at the call
    reqs,          \* that same list object now (getPackages removes from it)
    store,         \* importlib.metadata and importlib.resources, per name
    pypi,          \* names pypi.org has a project for
    pkgInfo,       \* getPackagesFromLocal: the records appended so far
    resolved,      \* history: the requirement each record of pkgInfo is for
    onlineReqs,    \* packageInfoFromPypi: the records appended so far
    i,             \* index of the next element of the running loop
    calls,         \* history: the functions entered so far, in order
    setupCfg,      \* the file setup.cfg
    pyproject,     \* the file pyproject.toml
    metaData       \* getMyPackageLicense: what getClassifiersLicense returned

vars == <<fn, pc, exc, ret, classifiers, requirements, reqs, store, pypi,
          pkgInfo, resolved, onlineReqs, i, calls, setupCfg, pyproject,
          metaData>>

UNKNOWN == "UNKNOWN"

\* ------------------------------------------------------------------------
\* Python str and list operations
\* ------------------------------------------------------------------------

\* s.startswith(p)
StartsWith(s, p) == Len(s) >= Len(p) /\ SubSeq(s, 1, Len(p)) = p

\* s.find(sep) + 1: the position of the leftmost occurrence of sep, 0 if none
Find(s, sep) ==
    LET hits == {k \in 1..Len(s) : k + Len(sep) - 1 <= Len(s)
                                   /\ SubSeq(s, k, k + Len(sep) - 1) = sep}
    IN IF hits = {} THEN 0 ELSE CHOOSE k \in hits : \A h \in hits : k <= h

\* s.split(sep): cut at the leftmost occurrence, go on behind it
RECURSIVE Split(_, _)
Split(s, sep) ==
    LET k == Find(s, sep)
    IN IF k = 0 THEN <<s>>
       ELSE <<SubSeq(s, 1, k - 1)>> \o Split(SubSeq(s, k + Len(sep), Len(s)), sep)

\* sep.join(parts)
RECURSIVE Join(_, _)
Join(sep, parts) ==
    IF parts = <<>> THEN ""
    ELSE IF Len(parts) = 1 THEN parts[1]
    ELSE parts[1] \o sep \o Join(sep, Tail(parts))

AsciiUpper == "ABCDEFGHIJKLMNOPQRSTUVWXYZ"
AsciiLower == "abcdefghijklmnopqrstuvwxyz"

\* one character of s.lower()
LowerChar(c) ==
    LET ks == {k \in 1..Len(AsciiUpper) : SubSeq(AsciiUpper, k, k) = c}
    IN IF ks = {} THEN c
       ELSE LET k == CHOOSE x \in ks : TRUE IN SubSeq(AsciiLower, k, k)

\* s.lower()
RECURSIVE Lower(_)
Lower(s) == IF s = "" THEN "" ELSE LowerChar(Head(s)) \o Lower(Tail(s))

\* x in lst
InList(x, lst) == \E k \in 1..Len(lst) : lst[k] = x

\* lst.remove(x), for x in lst: drops the first element equal to x
ListRemove(lst, x) ==
    LET k == CHOOSE n \in 1..Len(lst) : lst[n] = x /\ \A m \in 1..(n - 1) : lst[m] # x
    IN SubSeq(lst, 1, k - 1) \o SubSeq(lst, k + 1, Len(lst))

\* d.get(key, default)
Get(d, key, default) == IF key \in DOMAIN d THEN d[key] ELSE default

\* ------------------------------------------------------------------------
\* licenseFromClassifierlist
\* ------------------------------------------------------------------------

\* the loop body without the test for "OSI Approved"
ClassifierStepKeepsOSI(licenses, val) ==
    IF StartsWith(val, "License")
    THEN LET parts == Split(val, " :: ")
         IN Append(licenses, parts[Len(parts)])
    ELSE licenses

\* the loop body: licenses after one more classifier
ClassifierStep(licenses, val) ==
    IF StartsWith(val, "License")
    THEN LET parts == Split(val, " :: ")
             lice == parts[Len(parts)]
         IN IF lice # "OSI Approved" THEN Append(licenses, lice) ELSE licenses
    ELSE licenses

RECURSIVE ClassifierLoop(_, _)
ClassifierLoop(licenses, rest) ==
    IF rest = <<>> THEN licenses
    ELSE ClassifierLoop(ClassifierStep(licenses, Head(rest)), Tail(rest))

licenseFromClassifierlist(cs) ==
    LET licenses == ClassifierLoop(<<>>, cs)
    IN IF Len(licenses) > 0 THEN Join(", ", licenses) ELSE UNKNOWN

\* ------------------------------------------------------------------------
\* Arguments and environment
\* ------------------------------------------------------------------------

MaxClassifiers == 2

SeqsUpTo(S, n) == UNION {[1..k -> S] : k \in 0..n}

ClassifierStrings ==
    { "License :: MIT",
      "License :: OSI Approved",
      "License :: OSI Approved :: MIT License",
      "License :: UNKNOWN",
      "License :: :: BSD",
      "License :: ",
      "License",
      "Licens",
      "license :: MIT",
      "Topic :: License :: MIT",
      "Topic",
      "" }

\* the variables of the functions that are not called
NoPackages ==
    /\ requirements = <<>> /\ reqs = <<>> /\ store = <<>> /\ pypi = {}
    /\ pkgInfo = <<>> /\ resolved = <<>> /\ onlineReqs = <<>>
    /\ i = 0

NoProject ==
    /\ setupCfg = <<>> /\ pyproject = <<>> /\ metaData = <<>>

pkgVars == <<requirements, reqs, store, pypi, pkgInfo, resolved, onlineReqs, i>>
projVars == <<setupCfg, pyproject, metaData>>

\* ------------------------------------------------------------------------
\* A call of licenseFromClassifierlist
\* ------------------------------------------------------------------------

InitParse ==
    /\ fn = "licenseFromClassifierlist" /\ pc = "call" /\ exc = "" /\ ret = ""
    /\ calls = <<fn>>
    /\ classifiers \in SeqsUpTo(ClassifierStrings, MaxClassifiers)
    /\ NoPackages /\ NoProject

LicenseFromClassifierlist ==
    /\ fn = "licenseFromClassifierlist" /\ pc = "call"
    /\ ret' = licenseFromClassifierlist(classifiers)
    /\ pc' = "done"
    /\ UNCHANGED <<fn, exc, classifiers, calls, pkgVars, projVars>>

NextParse == LicenseFromClassifierlist

SpecParse == InitParse /\ [][NextParse]_vars

\* ------------------------------------------------------------------------
\* The environment of the package functions
\* ------------------------------------------------------------------------

MaxReqs == 2

\* requirement names; "A" and "a" differ in casing only
Names == {"a", "A"}

\* the headers of an installed distribution; names is {} when the metadata
\* has no Name header, else the one name it reports
Metadata(names) ==
    [k \in 1..Cardinality(names) |-> <<"Name", CHOOSE n \in names : TRUE>>]
    \o << <<"Version", "1.0">>,
          <<"Classifier", "Programming Language :: Python">>,
          <<"Classifier", "License :: OSI Approved :: MIT License">>,
          <<"Author", "someone">> >>

\* file trees under an installed package, as path.glob("**/*") lists them
Trees ==
    { <<>>,
      << [path |-> "site/pkg/__pycache__", is_file |-> FALSE, st_size |-> 4],
         [path |-> "site/pkg/__pycache__/m.pyc", is_file |-> TRUE, st_size |-> 7] >>,
      << [path |-> "site/pkg/m.py", is_file |-> TRUE, st_size |-> 5],
         [path |-> "site/pkg/__pycache__/m.pyc", is_file |-> TRUE, st_size |-> 7] >> }

\* what the installed environment holds for one name: whether
\* metadata.metadata finds it, its headers, and what resources.files does
\* ("path": returns the tree, else the exception it raises)
NotInstalled ==
    [installed |-> FALSE, metadata |-> <<>>, files |-> "ModuleNotFoundError",
     tree |-> <<>>]

StoreEntries ==
    {NotInstalled}
    \cup { [installed |-> TRUE, metadata |-> Metadata(ns), files |-> f, tree |-> <<>>] :
             ns \in {{}} \cup {{n} : n \in Names},
             f \in {"TypeError", "ModuleNotFoundError"} }
    \cup { [installed |-> TRUE, metadata |-> Metadata(ns), files |-> "path", tree |-> t] :
             ns \in {{}} \cup {{n} : n \in Names}, t \in Trees }

\* the states of the connection to pypi.org at one request
Networks == {"up", "down", "garbage"}

\* the JSON document of https://pypi.org/pypi/{name}/json
Response(name) ==
    [info |-> [version |-> "2.0", home_page |-> "https://example.org",
               author |-> "someone",
               classifiers |-> <<"License :: OSI Approved :: BSD License">>,
               license |-> "BSD"],
     urls |-> << [size |-> "11"], [size |-> "13"] >>]

\* int(s) for the decimal strings that occur
Int(s) == CASE s = "11" -> 11 [] s = "13" -> 13

\* the exception a request for name ends in, "" if it yields Response(name):
\* requests.get raises, request.json() raises, or the document of an
\* unknown project lacks the key
RequestError(net, name, key) ==
    IF net = "down" THEN "ConnectionError"
    ELSE IF net = "garbage" THEN "JSONDecodeError"
    ELSE IF name \notin pypi THEN "KeyError: " \o key
    ELSE ""

\* ------------------------------------------------------------------------
\* getModuleSize, getPackagesFromLocal, packageInfoFromPypi, getPackages
\* ------------------------------------------------------------------------

\* sum(f.stat().st_size for f in path.glob("**/*")
\*     if f.is_file() and "__pycache__" not in str(f))
RECURSIVE TreeSize(_)
TreeSize(tree) ==
    IF tree = <<>> THEN 0
    ELSE LET f == Head(tree)
         IN (IF f.is_file /\ Find(f.path, "__pycache__") = 0 THEN f.st_size ELSE 0)
            + TreeSize(Tail(tree))

\* pkgMetadata.get(key, default): the first header named key
MetadataGet(md, key, default) ==
    LET hits == {k \in 1..Len(md) : md[k][1] = key}
    IN IF hits = {} THEN default
       ELSE md[CHOOSE k \in hits : \A h \in hits : k <= h][2]

\* [val for key, val in pkgMetadata.items() if key == "Classifier"]
MetadataClassifiers(md) ==
    LET hs == SelectSeq(md, LAMBDA h : h[1] = "Classifier")
    IN [k \in 1..Len(hs) |-> hs[k][2]]

\* the record getPackagesFromLocal appends
LocalRecord(md, size) ==
    LET lice0 == licenseFromClassifierlist(MetadataClassifiers(md))
        lice == IF lice0 = UNKNOWN THEN MetadataGet(md, "License", UNKNOWN) ELSE lice0
        name == MetadataGet(md, "Name", UNKNOWN)
        version == MetadataGet(md, "Version", UNKNOWN)
    IN [name |-> name, version |-> version, namever |-> name \o "-" \o version,
        home_page |-> MetadataGet(md, "Home-page", UNKNOWN),
        author |-> MetadataGet(md, "Author", UNKNOWN),
        size |-> size, license |-> lice]

\* the record packageInfoFromPypi appends
PypiRecord(pkg, response) ==
    LET info == response.info
        licenseClassifier == licenseFromClassifierlist(info.classifiers)
    IN [name |-> pkg, version |-> info.version,
        namever |-> pkg \o " " \o info.version,
        home_page |-> info.home_page, author |-> info.author,
        size |-> Int(response.urls[Len(response.urls)].size),
        license |-> IF licenseClassifier # UNKNOWN THEN licenseClassifier
                    ELSE info.license]

InitPackages ==
    /\ fn \in {"getPackages", "getPackagesFromLocal", "packageInfoFromPypi"}
    /\ pc = IF fn = "packageInfoFromPypi" THEN "pypi" ELSE "local"
    /\ calls = IF fn = "getPackages" THEN <<fn, "getPackagesFromLocal">> ELSE <<fn>>
    /\ exc = "" /\ ret = <<>>
    /\ requirements \in SeqsUpTo(Names, MaxReqs)
    /\ reqs = requirements
    /\ store \in [Names -> StoreEntries]
    /\ \A n \in Names : store[n].installed =>
           fn # "packageInfoFromPypi" /\ InList(n, requirements)
    /\ pypi \in SUBSET Names
    /\ pkgInfo = <<>> /\ resolved = <<>> /\ onlineReqs = <<>>
    /\ i = 1
    /\ classifiers = <<>>
    /\ NoProject

Raise(e) == pc' = "raised" /\ exc' = e

\* PackageNotFoundError not caught
LocalNotFoundRaises ==
    /\ pc = "local" /\ i <= Len(reqs)
    /\ ~ store[reqs[i]].installed
    /\ Raise("PackageNotFoundError")
    /\ UNCHANGED <<fn, ret, classifiers, requirements, reqs, store, pypi,
                   pkgInfo, resolved, onlineReqs, i, calls, projVars>>

\* metadata.metadata(requirement) raises PackageNotFoundError: caught, skipped
LocalNotFound ==
    /\ pc = "local" /\ i <= Len(reqs)
    /\ ~ store[reqs[i]].installed
    /\ i' = i + 1
    /\ UNCHANGED <<fn, pc, exc, ret, classifiers, requirements, reqs, store, pypi,
                   pkgInfo, resolved, onlineReqs, calls, projVars>>

\* resources.files(requirement) raises ModuleNotFoundError: caught by the
\* outer handler, the name is skipped
LocalModuleNotFound ==
    /\ pc = "local" /\ i <= Len(reqs)
    /\ store[reqs[i]].installed
    /\ store[reqs[i]].files = "ModuleNotFoundError"
    /\ i' = i + 1
    /\ UNCHANGED <<fn, pc, exc, ret, classifiers, requirements, reqs, store, pypi,
                   pkgInfo, resolved, onlineReqs, calls, projVars>>

\* TypeError handled like a tree without files: size from the registry
LocalTypeErrorBackfills ==
    /\ pc = "local" /\ i <= Len(reqs)
    /\ store[reqs[i]].installed
    /\ store[reqs[i]].files = "TypeError"
    /\ pkgInfo' = Append(pkgInfo, LocalRecord(store[reqs[i]].metadata, 13))
    /\ resolved' = Append(resolved, reqs[i])
    /\ i' = i + 1
    /\ UNCHANGED <<fn, pc, exc, ret, classifiers, requirements, reqs, store, pypi,
                   onlineReqs, calls, projVars>>

\* resources.files(requirement) raises TypeError: caught, size stays 0
LocalTypeError ==
    /\ pc = "local" /\ i <= Len(reqs)
    /\ store[reqs[i]].installed
    /\ store[reqs[i]].files = "TypeError"
    /\ pkgInfo' = Append(pkgInfo, LocalRecord(store[reqs[i]].metadata, 0))
    /\ resolved' = Append(resolved, reqs[i])
    /\ i' = i + 1
    /\ UNCHANGED <<fn, pc, exc, ret, classifiers, requirements, reqs, store, pypi,
                   onlineReqs, calls, projVars>>

\* getModuleSize finds files: their sizes add up to more than 0
LocalSized ==
    /\ pc = "local" /\ i <= Len(reqs)
    /\ store[reqs[i]].installed
    /\ store[reqs[i]].files = "path"
    /\ TreeSize(store[reqs[i]].tree) > 0
    /\ pkgInfo' = Append(pkgInfo, LocalRecord(store[reqs[i]].metadata,
                                              TreeSize(store[reqs[i]].tree)))
    /\ resolved' = Append(resolved, reqs[i])
    /\ i' = i + 1
    /\ UNCHANGED <<fn, pc, exc, ret, classifiers, requirements, reqs, store, pypi,
                   onlineReqs, calls, projVars>>

\* getModuleSize adds up 0 and asks pypi.org for the size of `name`; an
\* exception of the request is caught by no handler
LocalBackfill ==
    /\ pc = "local" /\ i <= Len(reqs)
    /\ store[reqs[i]].installed
    /\ store[reqs[i]].files = "path"
    /\ TreeSize(store[reqs[i]].tree) = 0
    /\ \E net \in Networks :
         LET md == store[reqs[i]].metadata
             name == MetadataGet(md, "Name", UNKNOWN)
             e == RequestError(net, name, "urls")
             urls == Response(name).urls
         IN IF e = ""
            THEN /\ pkgInfo' = Append(pkgInfo, LocalRecord(md, Int(urls[Len(urls)].size)))
                 /\ resolved' = Append(resolved, reqs[i])
                 /\ i' = i + 1
                 /\ UNCHANGED <<pc, exc>>
            ELSE /\ Raise(e)
                 /\ UNCHANGED <<pkgInfo, resolved, i>>
    /\ UNCHANGED <<fn, ret, classifiers, requirements, reqs, store, pypi,
                   onlineReqs, calls, projVars>>

\* getPackagesFromLocal returns pkgInfo, to its caller or into getPackages
LocalReturn ==
    /\ pc = "local" /\ i > Len(reqs)
    /\ IF fn = "getPackagesFromLocal"
       THEN pc' = "done" /\ ret' = pkgInfo /\ i' = i
       ELSE pc' = "remove" /\ ret' = ret /\ i' = 1
    /\ UNCHANGED <<fn, exc, classifiers, requirements, reqs, store, pypi,
                   pkgInfo, resolved, onlineReqs, calls, projVars>>

\* the removal guarded by a membership test: an absent name is passed over
RemoveIfPresent ==
    /\ pc = "remove" /\ i <= Len(pkgInfo)
    /\ LET x == Lower(pkgInfo[i].name)
       IN reqs' = IF InList(x, reqs) THEN ListRemove(reqs, x) ELSE reqs
    /\ i' = i + 1
    /\ UNCHANGED <<fn, pc, exc, ret, classifiers, requirements, store, pypi,
                   pkgInfo, resolved, onlineReqs, calls, projVars>>

\* reqs.remove(localReq["name"].lower()); ValueError if it is not in reqs
Remove ==
    /\ pc = "remove" /\ i <= Len(pkgInfo)
    /\ LET x == Lower(pkgInfo[i].name)
       IN IF InList(x, reqs)
          THEN reqs' = ListRemove(reqs, x) /\ i' = i + 1 /\ UNCHANGED <<pc, exc>>
          ELSE Raise("ValueError") /\ UNCHANGED <<reqs, i>>
    /\ UNCHANGED <<fn, ret, classifiers, requirements, store, pypi,
                   pkgInfo, resolved, onlineReqs, calls, projVars>>

\* getPackages calls packageInfoFromPypi(reqs)
RemoveDone ==
    /\ pc = "remove" /\ i > Len(pkgInfo)
    /\ pc' = "pypi" /\ i' = 1
    /\ calls' = Append(calls, "packageInfoFromPypi")
    /\ UNCHANGED <<fn, exc, ret, classifiers, requirements, reqs, store, pypi,
                   pkgInfo, resolved, onlineReqs, projVars>>

\* a failed request skipped, as getPackagesFromLocal skips
PypiSkipsFailures ==
    /\ pc = "pypi" /\ i <= Len(reqs)
    /\ \E net \in Networks :
         LET e == RequestError(net, reqs[i], "info")
         IN /\ onlineReqs' = IF e = ""
                             THEN Append(onlineReqs, PypiRecord(reqs[i], Response(reqs[i])))
                             ELSE onlineReqs
            /\ i' = i + 1
    /\ UNCHANGED <<fn, pc, exc, ret, classifiers, requirements, reqs, store, pypi,
                   pkgInfo, resolved, calls, projVars>>

\* one request of packageInfoFromPypi; its exceptions are caught by no handler
Pypi ==
    /\ pc = "pypi" /\ i <= Len(reqs)
    /\ \E net \in Networks :
         LET e == RequestError(net, reqs[i], "info")
         IN IF e = ""
            THEN /\ onlineReqs' = Append(onlineReqs, PypiRecord(reqs[i], Response(reqs[i])))
                 /\ i' = i + 1
                 /\ UNCHANGED <<pc, exc>>
            ELSE /\ Raise(e)
                 /\ UNCHANGED <<onlineReqs, i>>
    /\ UNCHANGED <<fn, ret, classifiers, requirements, reqs, store, pypi,
                   pkgInfo, resolved, calls, projVars>>

\* packageInfoFromPypi returns; getPackages returns localReqs + onlineReqs
PypiReturn ==
    /\ pc = "pypi" /\ i > Len(reqs)
    /\ pc' = "done"
    /\ ret' = IF fn = "getPackages" THEN pkgInfo \o onlineReqs ELSE onlineReqs
    /\ UNCHANGED <<fn, exc, classifiers, requirements, reqs, store, pypi,
                   pkgInfo, resolved, onlineReqs, i, calls, projVars>>

NextPackages ==
    \/ LocalNotFound \/ LocalModuleNotFound \/ LocalTypeError \/ LocalSized
    \/ LocalBackfill \/ LocalReturn \/ Remove \/ RemoveDone \/ Pypi \/ PypiReturn

SpecPackages == InitPackages /\ [][NextPackages]_vars

\* ------------------------------------------------------------------------
\* The manifest files of the current project
\* ------------------------------------------------------------------------

\* a dict from the keys whose option is not empty: opts[k] is {} or {value}
DictOf(opts) ==
    [k \in {x \in DOMAIN opts : opts[x] # {}} |-> CHOOSE v \in opts[k] : TRUE]

EmptyDict == DictOf([k \in {} |-> {}])

\* Python values inside the parsed manifests: the type and, in the field of
\* that type, the value
PyStr(s) == [type |-> "str", str |-> s, list |-> <<>>, dict |-> EmptyDict]
PyList(l) == [type |-> "list", str |-> "", list |-> l, dict |-> EmptyDict]
PyDict(d) == [type |-> "dict", str |-> "", list |-> <<>>, dict |-> d]
PyObject(o) == [type |-> "object", str |-> o, list |-> <<>>, dict |-> EmptyDict]

Option(S) == {{}} \cup {{x} : x \in S}

\* the sections of a well-formed setup.cfg, each a dict of strings
SetupSections ==
    { DictOf([metadata |-> m, options |-> o]) :
        m \in Option({ EmptyDict,
                       DictOf([name |-> {"pkg"}, license |-> {}, classifiers |-> {}]),
                       DictOf([name |-> {"pkg"}, license |-> {"MIT"}, classifiers |-> {}]),
                       DictOf([name |-> {"pkg"}, license |-> {"MIT"},
                               classifiers |-> {"License :: OSI Approved :: MIT License"}]) }),
        o \in Option({ DictOf([packages |-> {"find:"}]) }) }

\* exists: Path(...).exists(); parses: the parser accepts the text;
\* data: what the parser returns
NoFile == [exists |-> FALSE, parses |-> FALSE, data |-> EmptyDict]
Malformed == [exists |-> TRUE, parses |-> FALSE, data |-> EmptyDict]
Parsed(d) == [exists |-> TRUE, parses |-> TRUE, data |-> d]

SetupCfgs == {NoFile, Malformed} \cup {Parsed(s) : s \in SetupSections}

\* the tables a license may be declared in
Tables ==
    { EmptyDict,
      DictOf([classifiers |-> {}, license |-> {PyStr("MIT")}]),
      DictOf([classifiers |-> {PyList(<<"Topic :: Utilities",
                                        "License :: OSI Approved :: Apache Software License">>)},
              license |-> {}]),
      DictOf([classifiers |-> {PyList(<<"Topic :: Utilities">>)},
              license |-> {PyDict(DictOf([text |-> {"BSD"}, file |-> {}]))}]),
      DictOf([classifiers |-> {},
              license |-> {PyDict(DictOf([text |-> {}, file |-> {"LICENSE"}]))}]) }

\* the documents tomli.loads returns for a well-formed pyproject.toml
Pyprojects ==
    { DictOf([tool |-> t, project |-> p]) :
        t \in Option({ DictOf([poetry |-> po, flit |-> fl]) :
                         po \in Option(Tables),
                         fl \in Option({DictOf([metadata |-> md]) : md \in Option(Tables)}) }),
        p \in Option(Tables) }

PyprojectTomls == {NoFile, Malformed} \cup {Parsed(d) : d \in Pyprojects}

\* what input() may read
Lines == {"", "GPL"}

\* ------------------------------------------------------------------------
\* getClassifiersLicense, getMyPackageLicense
\* ------------------------------------------------------------------------

\* config["metadata"].__dict__: the attributes of the SectionProxy object,
\* not the options of the section
SectionProxyDict ==
    [k \in {"_parser", "_name", "getint", "getfloat", "getboolean"} |->
        IF k = "_name" THEN PyStr("metadata") ELSE PyObject(k)]

\* {"classifiers": [], "license": ""}
Fallback == [k \in {"classifiers", "license"} |->
                IF k = "classifiers" THEN PyList(<<>>) ELSE PyStr("")]

\* str(v)
Str(v) ==
    IF v.type = "str" THEN v.str
    ELSE LET d == v.dict
         IN IF DOMAIN d = {} THEN "{}"
            ELSE LET k == CHOOSE x \in DOMAIN d : TRUE
                 IN "{'" \o k \o "': '" \o d[k] \o "'}"

InitProject ==
    /\ fn \in {"getClassifiersLicense", "getMyPackageLicense"}
    /\ pc = "setup.cfg"
    /\ calls = IF fn = "getMyPackageLicense" THEN <<fn, "getClassifiersLicense">>
               ELSE <<fn>>
    /\ exc = "" /\ ret = ""
    /\ setupCfg \in SetupCfgs
    /\ pyproject \in PyprojectTomls
    /\ metaData = EmptyDict
    /\ classifiers = <<>>
    /\ NoPackages

\* getClassifiersLicense returns d, to its caller or into getMyPackageLicense
Return(d) ==
    IF fn = "getClassifiersLicense"
    THEN pc' = "done" /\ ret' = d /\ UNCHANGED <<exc, metaData>>
    ELSE pc' = "license" /\ metaData' = d /\ UNCHANGED <<exc, ret>>

\* if Path("setup.cfg").exists(): ...
ReadSetupCfg ==
    /\ pc = "setup.cfg"
    /\ IF ~ setupCfg.exists
       THEN pc' = "pyproject.toml" /\ UNCHANGED <<exc, ret, metaData>>
       ELSE IF ~ setupCfg.parses
       THEN Raise("configparser.Error") /\ UNCHANGED <<ret, metaData>>
       ELSE IF "metadata" \notin DOMAIN setupCfg.data
       THEN Raise("KeyError: metadata") /\ UNCHANGED <<ret, metaData>>
       ELSE IF "license" \in DOMAIN setupCfg.data["metadata"]
       THEN Return(SectionProxyDict)
       ELSE pc' = "pyproject.toml" /\ UNCHANGED <<exc, ret, metaData>>
    /\ UNCHANGED <<fn, classifiers, calls, setupCfg, pyproject, pkgVars>>

\* the `project` table checked before the tool tables
ReadPyprojectProjectFirst ==
    /\ pc = "pyproject.toml"
    /\ IF ~ pyproject.exists
       THEN Return(Fallback)
       ELSE IF ~ pyproject.parses
       THEN Raise("TOMLDecodeError") /\ UNCHANGED <<ret, metaData>>
       ELSE IF "project" \in DOMAIN pyproject.data
       THEN Return(pyproject.data["project"])
       ELSE IF "tool" \notin DOMAIN pyproject.data
       THEN Raise("KeyError: tool") /\ UNCHANGED <<ret, metaData>>
       ELSE LET tool == pyproject.data["tool"]
            IN IF "poetry" \in DOMAIN tool
               THEN Return(tool["poetry"])
               ELSE IF "flit" \in DOMAIN tool
               THEN IF "metadata" \in DOMAIN tool["flit"]
                    THEN Return(tool["flit"]["metadata"])
                    ELSE Raise("KeyError: metadata") /\ UNCHANGED <<ret, metaData>>
               ELSE Return(Fallback)
    /\ UNCHANGED <<fn, classifiers, calls, setupCfg, pyproject, pkgVars>>

\* if Path("pyproject.toml").exists(): ... and the final return
ReadPyproject ==
    /\ pc = "pyproject.toml"
    /\ IF ~ pyproject.exists
       THEN Return(Fallback)
       ELSE IF ~ pyproject.parses
       THEN Raise("TOMLDecodeError") /\ UNCHANGED <<ret, metaData>>
       ELSE IF "tool" \notin DOMAIN pyproject.data
       THEN Raise("KeyError: tool") /\ UNCHANGED <<ret, metaData>>
       ELSE LET tool == pyproject.data["tool"]
            IN IF "poetry" \in DOMAIN tool
               THEN Return(tool["poetry"])
               ELSE IF "flit" \in DOMAIN tool
               THEN IF "metadata" \in DOMAIN tool["flit"]
                    THEN Return(tool["flit"]["metadata"])
                    ELSE Raise("KeyError: metadata") /\ UNCHANGED <<ret, metaData>>
               ELSE IF "project" \in DOMAIN pyproject.data
               THEN Return(pyproject.data["project"])
               ELSE Return(Fallback)
    /\ UNCHANGED <<fn, classifiers, calls, setupCfg, pyproject, pkgVars>>

\* getMyPackageLicense after getClassifiersLicense, up to the call of input()
MyPackageLicense ==
    /\ pc = "license"
    /\ LET licenseClassifier ==
               licenseFromClassifierlist(Get(metaData, "classifiers", PyList(<<>>)).list)
       IN IF licenseClassifier # UNKNOWN
          THEN pc' = "done" /\ ret' = licenseClassifier /\ calls' = calls
          ELSE IF "license" \in DOMAIN metaData
          THEN /\ pc' = "done" /\ calls' = calls
               /\ ret' = IF /\ metaData["license"].type = "dict"
                            /\ "text" \in DOMAIN metaData["license"].dict
                         THEN metaData["license"].dict["text"]
                         ELSE Str(metaData["license"])
          ELSE pc' = "input" /\ ret' = ret /\ calls' = Append(calls, "input")
    /\ UNCHANGED <<fn, exc, classifiers, setupCfg, pyproject, metaData, pkgVars>>

\* input("Enter the project license") returns the line the user typed
Input ==
    /\ pc = "input"
    /\ \E line \in Lines : ret' = line
    /\ pc' = "done"
    /\ UNCHANGED <<fn, exc, classifiers, calls, setupCfg, pyproject, metaData, pkgVars>>

NextProject == ReadSetupCfg \/ ReadPyproject \/ MyPackageLicense \/ Input

SpecProject == InitProject /\ [][NextProject]_vars

\* ------------------------------------------------------------------------
\* C1, C2, C3: getPackages
\* ------------------------------------------------------------------------

\* getPackages has called packageInfoFromPypi(reqs)
RemoteCalled == fn = "getPackages" /\ InList("packageInfoFromPypi", calls)

Terminated == pc \in {"done", "raised"}

\* C1 as stated: a name for which getPackagesFromLocal produced a record is
\* never among the names getPackages passes to packageInfoFromPypi.
C1_NeverBoth ==
    RemoteCalled => \A k \in 1..Len(resolved) : ~ InList(resolved[k], reqs)

\* the Local Resolver produces a record for name n
LocallyResolvable(n) ==
    store[n].installed /\ store[n].files # "ModuleNotFoundError"

\* every name of the input is resolvable, locally or in the registry, and
\* the metadata of the installed ones has a Name header
AllResolvable ==
    \A k \in 1..Len(requirements) :
        /\ LocallyResolvable(requirements[k]) \/ requirements[k] \in pypi
        /\ store[requirements[k]].installed =>
               MetadataGet(store[requirements[k]].metadata, "Name", "") # ""

\* the exceptions of a request that got no answer from the registry, and of
\* the size request of getModuleSize
RequestFailures == {"ConnectionError", "JSONDecodeError", "KeyError: urls"}

\* C2 as stated: when every input name is resolvable, getPackages returns
\* the local records followed by the remote records, as many as there are
\* input names (unless a request to the registry fails).
C2_LengthPreserved ==
    (fn = "getPackages" /\ AllResolvable /\ Terminated) =>
        \/ /\ pc = "done"
           /\ Len(ret) = Len(requirements)
           /\ ret = pkgInfo \o onlineReqs
        \/ pc = "raised" /\ exc \in RequestFailures

\* record k of the Local Resolver reports a name that, lowercased, differs
\* from the input string it was resolved from in casing only
CasingMismatch(k) ==
    /\ Lower(pkgInfo[k].name) # resolved[k]
    /\ Lower(pkgInfo[k].name) = Lower(resolved[k])

Count(x, lst) == Cardinality({k \in 1..Len(lst) : lst[k] = x})

SepAt(s, k) == k >= 1 /\ k + 3 <= Len(s) /\ SubSeq(s, k, k + 3) = " :: "

\* position k is a separator of s: " :: " stands there and no separator
\* further left covers one of its characters
RECURSIVE IsCut(_, _)
IsCut(s, k) == SepAt(s, k) /\ \A j \in 1..3 : ~ (k - j >= 1 /\ IsCut(s, k - j))

\* the final " :: "-separated segment of s
FinalSegment(s) ==
    LET cuts == {k \in 1..Len(s) : IsCut(s, k)}
    IN IF cuts = {} THEN s
       ELSE LET last == CHOOSE k \in cuts : \A c \in cuts : c <= k
            IN SubSeq(s, last + 4, Len(s))

\* the final segments of the "License" entries of cs which are not
\* "OSI Approved", in encounter order
Labels(cs) ==
    LET entries == SelectSeq(cs, LAMBDA v : StartsWith(v, "License"))
        finals == [k \in 1..Len(entries) |-> FinalSegment(entries[k])]
    IN SelectSeq(finals, LAMBDA l : l # "OSI Approved")

\* C4 as stated: licenseFromClassifierlist returns the ", "-joined labels,
\* and returns "UNKNOWN" exactly when there is no label.
C4_AsStated ==
    (fn = "licenseFromClassifierlist" /\ pc = "done") =>
        /\ Labels(classifiers) # <<>> => ret = Join(", ", Labels(classifiers))
        /\ ret = UNKNOWN <=> Labels(classifiers) = <<>>

\* C4 amended: licenseFromClassifierlist returns "UNKNOWN" when there is no
\* label and the ", "-joined labels otherwise; the result is "UNKNOWN"
\* exactly when there is no label or the only label is "UNKNOWN" itself.
C4_JoinedLabels ==
    (fn = "licenseFromClassifierlist" /\ pc = "done") =>
        /\ Labels(classifiers) = <<>> => ret = UNKNOWN
        /\ Labels(classifiers) # <<>> => ret = Join(", ", Labels(classifiers))
        /\ ret = UNKNOWN <=> Labels(classifiers) \in {<<>>, <<UNKNOWN>>}
        /\ classifiers = <<>> => ret = UNKNOWN
        /\ (\A k \in 1..Len(classifiers) : ~ StartsWith(classifiers[k], "License"))
               => ret = UNKNOWN

\* two labels joined in encounter order, an "OSI Approved" entry left out
C4_Witness ==
    /\ fn = "licenseFromClassifierlist" /\ pc = "done"
    /\ classifiers = <<"License :: OSI Approved :: MIT License", "License :: :: BSD">>
    /\ ret = "MIT License, :: BSD"

\* ------------------------------------------------------------------------
\* C7, C8, C9: getClassifiersLicense, getMyPackageLicense
\* ------------------------------------------------------------------------

ProjectCall == fn \in {"getClassifiersLicense", "getMyPackageLicense"}

\* setup.cfg is absent, or well formed without a license option
SetupWithoutLicense ==
    \/ ~ setupCfg.exists
    \/ /\ setupCfg.parses
       /\ \/ "metadata" \notin DOMAIN setupCfg.data
          \/ "license" \notin DOMAIN setupCfg.data["metadata"]

\* pyproject.toml has a `project` table and a `tool.poetry` table
BothTables ==
    /\ pyproject.exists /\ pyproject.parses
    /\ "project" \in DOMAIN pyproject.data
    /\ "tool" \in DOMAIN pyproject.data
    /\ "poetry" \in DOMAIN pyproject.data["tool"]

\* getClassifiersLicense has returned
ClassifiersLicenseReturned ==
    \/ fn = "getClassifiersLicense" /\ pc = "done"
    \/ fn = "getMyPackageLicense" /\ pc \in {"license", "input", "done"}

\* what it returned
ClassifiersLicense == IF fn = "getClassifiersLicense" THEN ret ELSE metaData

\* C7 as stated: with no license from setup.cfg and both tables in
\* pyproject.toml, getClassifiersLicense returns the `project` table.
C7_ProjectTable ==
    (ProjectCall /\ SetupWithoutLicense /\ BothTables /\ ClassifiersLicenseReturned)
        => ClassifiersLicense = pyproject.data["project"]

\* C7 amended: with no license from setup.cfg and both tables in
\* pyproject.toml, getClassifiersLicense returns the `tool.poetry` table,
\* which it checks before `project`; it raises only for a setup.cfg that
\* has no [metadata] section.
C7_PoetryTable ==
    (ProjectCall /\ SetupWithoutLicense /\ BothTables) =>
        /\ ClassifiersLicenseReturned =>
               ClassifiersLicense = pyproject.data["tool"]["poetry"]
        /\ pc = "raised" =>
               /\ setupCfg.exists /\ "metadata" \notin DOMAIN setupCfg.data
               /\ exc = "KeyError: metadata"

\* both tables present and different, setup.cfg with a [metadata] section
\* without license: the poetry table is returned
C7_Witness ==
    /\ fn = "getClassifiersLicense" /\ pc = "done"
    /\ setupCfg.exists /\ setupCfg.parses
    /\ "metadata" \in DOMAIN setupCfg.data
    /\ "license" \notin DOMAIN setupCfg.data["metadata"]
    /\ BothTables
    /\ pyproject.data["project"] # pyproject.data["tool"]["poetry"]
    /\ ret = pyproject.data["tool"]["poetry"]

\* C8 as stated: getClassifiersLicense and getMyPackageLicense raise only
\* when a manifest that exists is malformed.
C8_OnlyMalformedFails ==
    (ProjectCall /\ pc = "raised") =>
        \/ setupCfg.exists /\ ~ setupCfg.parses
        \/ pyproject.exists /\ ~ pyproject.parses

\* neither setup.cfg nor pyproject.toml exists
NoManifest == ~ setupCfg.exists /\ ~ pyproject.exists

\* the Classifier Parser yields "UNKNOWN" and no license value is declared
NoLicenseDetermined ==
    /\ licenseFromClassifierlist(Get(metaData, "classifiers", PyList(<<>>)).list) = UNKNOWN
    /\ "license" \notin DOMAIN metaData \/ NoManifest

\* C9 as stated: when no license can be determined, the result of
\* getMyPackageLicense is what the user typed at the prompt.
C9_PromptsUser ==
    (fn = "getMyPackageLicense" /\ pc = "done" /\ NoLicenseDetermined)
        => InList("input", calls)

\* ------------------------------------------------------------------------
\* C5, C6, C10: getPackagesFromLocal, packageInfoFromPypi
\* ------------------------------------------------------------------------

Installed(n) == store[n].installed

RecordFields ==
    {"name", "version", "namever", "home_page", "author", "size", "license"}

\* C5 as stated: getPackagesFromLocal raises nothing for a name the
\* metadata store does not know, and returns exactly one record per input
\* name the store knows, in input order.
C5_OnePerKnownName ==
    fn = "getPackagesFromLocal" =>
        /\ pc = "raised" => Installed(reqs[i])
        /\ pc = "done" =>
              /\ resolved = SelectSeq(requirements, Installed)
              /\ Len(ret) = Len(resolved)

\* C5 amended: getPackagesFromLocal raises nothing for a name the metadata
\* store does not know (it raises only when the size request of
\* getModuleSize fails for a name the store knows); when it returns, it
\* returns exactly one complete record per input name that the store knows
\* and resources.files finds a module for, in input order, and no record
\* for any other name.
C5_OnePerImportableName ==
    fn = "getPackagesFromLocal" =>
        /\ pc = "raised" =>
              /\ Installed(reqs[i]) /\ store[reqs[i]].files = "path"
              /\ exc \in RequestFailures
        /\ pc = "done" =>
              /\ resolved = SelectSeq(requirements, LocallyResolvable)
              /\ Len(ret) = Len(resolved)
              /\ \A k \in 1..Len(ret) :
                    /\ DOMAIN ret[k] = RecordFields
                    /\ ret[k].name =
                          MetadataGet(store[resolved[k]].metadata, "Name", UNKNOWN)

\* of two input names the first is unknown to the store and yields no
\* record, the second yields one
C5_Witness ==
    /\ fn = "getPackagesFromLocal" /\ pc = "done"
    /\ Len(requirements) = 2
    /\ ~ Installed(requirements[1])
    /\ resolved = <<requirements[2]>>
    /\ Len(ret) = 1

\* C6: packageInfoFromPypi never skips a name: while it runs it holds one
\* record per name handled, named as the input; when it returns, the result
\* has one record per input name, in input order, each name known to the
\* registry; when a lookup fails, the exception leaves the function and
\* nothing is returned, also out of getPackages.
C6_NoSilentSkip ==
    /\ fn = "packageInfoFromPypi" =>
          /\ pc = "pypi" => Len(onlineReqs) = i - 1
          /\ \A k \in 1..Len(onlineReqs) : onlineReqs[k].name = requirements[k]
          /\ pc = "done" =>
                /\ ret = onlineReqs
                /\ Len(ret) = Len(requirements)
                /\ \A k \in 1..Len(ret) : requirements[k] \in pypi
          /\ pc = "raised" =>
                /\ exc \in {"ConnectionError", "JSONDecodeError", "KeyError: info"}
                /\ ret = <<>>
    /\ (RemoteCalled /\ Terminated) =>
          /\ \A k \in 1..Len(onlineReqs) : onlineReqs[k].name = reqs[k]
          /\ pc = "done" => Len(onlineReqs) = Len(reqs)
          /\ pc = "raised" => ret = <<>>

\* two distinct names, both answered by the registry
C6_Witness ==
    /\ fn = "packageInfoFromPypi" /\ pc = "done"
    /\ Len(requirements) = 2 /\ requirements[1] # requirements[2]
    /\ ret[1].name = requirements[1] /\ ret[2].name = requirements[2]

\* resources.files raises TypeError for the installed name n
SizeUnsupported(n) == Installed(n) /\ store[n].files = "TypeError"

\* the files under the installed name n add up to no size
NoFiles(n) == Installed(n) /\ store[n].files = "path" /\ TreeSize(store[n].tree) = 0

\* C10 as stated: for an installed package whose file tree cannot be
\* enumerated, or whose enumeration yields no files, getPackagesFromLocal
\* returns a record of size 0 and raises nothing.
C10_SizeZero ==
    fn = "getPackagesFromLocal" =>
        /\ \A k \in 1..Len(resolved) :
              (SizeUnsupported(resolved[k]) \/ NoFiles(resolved[k]))
              => pkgInfo[k].size = 0
        /\ pc = "raised" => ~ (SizeUnsupported(reqs[i]) \/ NoFiles(reqs[i]))

\* C10 amended: for an installed package for which resources.files raises
\* TypeError, getPackagesFromLocal returns a record of size 0 and raises
\* nothing, whatever the registry; when the enumeration yields no files it
\* asks the registry instead: the record has the registry's size, and a
\* failed request leaves the function as an exception.
C10_SizeZeroOnTypeError ==
    fn = "getPackagesFromLocal" =>
        /\ \A k \in 1..Len(resolved) :
              /\ SizeUnsupported(resolved[k]) => pkgInfo[k].size = 0
              /\ NoFiles(resolved[k]) =>
                    /\ pkgInfo[k].size = 13
                    /\ pkgInfo[k].name \in pypi
        /\ pc = "raised" => NoFiles(reqs[i]) /\ exc \in RequestFailures
        /\ pc = "done" =>
              \A k \in 1..Len(requirements) :
                  SizeUnsupported(requirements[k]) => InList(requirements[k], resolved)

\* a record of size 0 for a package without a file tree, the registry
\* knowing no project at all
C10_Witness ==
    /\ fn = "getPackagesFromLocal" /\ pc = "done"
    /\ pypi = {}
    /\ Len(ret) = 2
    /\ SizeUnsupported(resolved[1]) /\ ret[1].size = 0
    /\ SizeUnsupported(resolved[2]) /\ ret[2].size = 0

====
